---------------------------- MODULE Spec2Model ----------------------------
(***************************************************************************)
(* A model of scripts/metadata.py: the information-set cardinality         *)
(* estimator.  The script is a sequential Python program; every source     *)
(* line that is executed is one action, named after the line it models     *)
(* (m<line> for module-level statements, ic<line> for infoset_count,       *)
(* fs<line> for infoset_fixed_start_count).                                *)
(*                                                                         *)
(* State: the module namespace (globals), the locals of the active call    *)
(* (frame), the standard output (out) and the program position (pc).       *)
(*                                                                         *)
(* Two specifications:                                                     *)
(*   Spec      one run of the script, from line 1 to the last print;       *)
(*   SpecCalc  the module after it has been loaded, with a caller that     *)
(*             applies the two per-turn calculators to turns it chooses.   *)
(***************************************************************************)
EXTENDS Integers, Sequences, FiniteSets, TLC

VARIABLES
    pc,       \* the line about to be executed
    globals,  \* the module namespace: bound name -> value
    frame,    \* the locals of the active call: bound name -> value
    out,      \* standard output, one entry per print
    calls,    \* the arguments infoset_fixed_start_count was called with at line 65
    it,       \* the next value of the range iterator of the loop of line 63
    caller,   \* who receives a call's result: "module" (line 65) or "harness"
    probe,    \* SpecCalc: the turn whose outcomes the caller keeps
    memo      \* SpecCalc: function name -> the first outcome observed at turn probe

vars == <<pc, globals, frame, out, calls, it, caller, probe, memo>>

(***************************************************************************)
(* Bounds.                                                                 *)
(***************************************************************************)
\* The turns the caller of SpecCalc draws from: 0..MaxTurn.
MaxTurn == 11

Turns == 0..MaxTurn

(***************************************************************************)
(* Namespaces.                                                             *)
(***************************************************************************)
Empty == [n \in {} |-> 0]

Bind(f, name, v) == [n \in (DOMAIN f) \cup {name} |-> IF n = name THEN v ELSE f[n]]

(***************************************************************************)
(* Python integers are unbounded.  Values that stay below 2^31 are kept as *)
(* integers; the products of line 35 and line 79 exceed it and are kept as *)
(* exact decimal digit sequences, least significant digit first.           *)
(***************************************************************************)
RECURSIVE BigFromInt(_)
BigFromInt(n) == IF n = 0 THEN <<>> ELSE <<n % 10>> \o BigFromInt(n \div 10)

RECURSIVE MulCarry(_, _, _)
MulCarry(a, m, c) ==
    IF a = <<>>
    THEN BigFromInt(c)
    ELSE LET v == Head(a) * m + c
         IN  <<v % 10>> \o MulCarry(Tail(a), m, v \div 10)

\* a * m for a digit sequence a and an integer m >= 0
BigMul(a, m) == IF m = 0 THEN <<>> ELSE MulCarry(a, m, 0)

\* str(n) for a digit sequence: the decimal digits, most significant first
Decimal(a) == IF a = <<>> THEN <<0>> ELSE [k \in 1..Len(a) |-> a[Len(a) + 1 - k]]

RECURSIVE Pow(_, _)
Pow(b, e) == IF e = 0 THEN 1 ELSE b * Pow(b, e - 1)

(***************************************************************************)
(* math.comb and math.factorial (line 1).  math.comb(n, k) raises          *)
(* ValueError when n or k is negative, returns 0 when k > n, and           *)
(* n! / (k! (n-k)!) otherwise.                                             *)
(***************************************************************************)
CombRaises(n, k) == n < 0 \/ k < 0

RECURSIVE CombIter(_, _, _)
CombIter(n, k, j) == IF j = 0 THEN 1 ELSE (CombIter(n, k, j - 1) * (n - k + j)) \div j

comb(n, k) == IF k > n THEN 0 ELSE CombIter(n, k, k)

\* math.factorial(n) raises ValueError when n is negative
FactorialRaises(n) == n < 0

RECURSIVE factorial(_)
factorial(n) == IF n <= 0 THEN 1 ELSE n * factorial(n - 1)

(***************************************************************************)
(* Statement shapes.                                                       *)
(***************************************************************************)
Global(at, name, v, next) ==
    /\ pc = at
    /\ globals' = Bind(globals, name, v)
    /\ pc' = next
    /\ UNCHANGED <<frame, out, calls, it, caller, probe, memo>>

Local(at, name, v, next) ==
    /\ pc = at
    /\ frame' = Bind(frame, name, v)
    /\ pc' = next
    /\ UNCHANGED <<globals, out, calls, it, caller, probe, memo>>

\* a local assignment whose right-hand side may raise ValueError
\* (pc becomes handler: the exception leaves the function)
LocalOrRaise(at, raises, name, v, next, handler) ==
    /\ pc = at
    /\ IF raises
       THEN pc' = handler /\ frame' = frame
       ELSE pc' = next /\ frame' = Bind(frame, name, v)
    /\ UNCHANGED <<globals, out, calls, it, caller, probe, memo>>

\* print(f"..."): fmt is the f-string with {} for each replacement field, args
\* the values of the fields in order
Emit(at, fmt, args, next) ==
    /\ pc = at
    /\ out' = Append(out, [fmt |-> fmt, args |-> args])
    /\ pc' = next
    /\ UNCHANGED <<globals, frame, calls, it, caller, probe, memo>>

(***************************************************************************)
(* infoset_count(turn), lines 10-35.                                       *)
(***************************************************************************)
ic11 == Local("ic11", "score_range", 1 + frame.turn * 2, "ic13")

ic13 == LocalOrRaise("ic13", CombRaises(globals.creature_count, frame.turn),
                     "graveyard_range", comb(globals.creature_count, frame.turn), "ic14", "ic_raised")

ic14 == LocalOrRaise("ic14",
                     CombRaises(globals.creature_count - frame.turn, 5 - frame.turn),
                     "hand_range",
                     comb(globals.creature_count - frame.turn, 5 - frame.turn), "ic16", "ic_raised")

ic16 == Local("ic16", "battlefield_effect_range",
              globals.battlefield_player_effect_count * 2 + 1, "ic17")

ic17 == Local("ic17", "creature_effect_range",
              globals.creature_player_effect_count * 2 + 1, "ic19")

\* ic19 with + in place of *
ic19_sum == Local("ic19", "effect_range",
                  frame.creature_effect_range + frame.battlefield_effect_range, "ic20")

ic19 == Local("ic19", "effect_range",
              frame.creature_effect_range * frame.battlefield_effect_range, "ic20")

\* the two branches of the conditional expression exchanged
FactorialArgument_swapped(turn) == IF turn - 3 # 0 THEN 3 - turn ELSE 1

\* 1 if turn - 3 else 3 - turn: the condition is the truthiness of turn - 3
FactorialArgument(turn) == IF turn - 3 # 0 THEN 1 ELSE 3 - turn

ic20 == LocalOrRaise("ic20",
                     FactorialRaises(globals.battlefield_count)
                         \/ FactorialRaises(FactorialArgument(frame.turn)),
                     "battlefields_range",
                     factorial(globals.battlefield_count)
                         * factorial(FactorialArgument(frame.turn)),
                     "ic22", "ic_raised")

ic22 == Local("ic22", "edict_range", 0, "ic25_range")

\* line 25, range(0, turn + 1): the iterator is created
ic25_range == Local("ic25_range", "range_next", 0, "ic25_next")

\* line 25, the next value of the iterator, or the end of the loop
ic25_next ==
    /\ pc = "ic25_next"
    /\ IF frame.range_next < frame.turn + 1
       THEN /\ frame' = Bind(Bind(frame, "i", frame.range_next),
                             "range_next", frame.range_next + 1)
            /\ pc' = "ic26"
       ELSE /\ frame' = frame
            /\ pc' = "ic28"
    /\ UNCHANGED <<globals, out, calls, it, caller, probe, memo>>

ic26 == LocalOrRaise("ic26",
                     CombRaises(globals.edict_count, 5 - frame.turn)
                         \/ CombRaises(globals.edict_count, 5 - frame.i),
                     "edict_range",
                     frame.edict_range + comb(globals.edict_count, 5 - frame.turn)
                                         * comb(globals.edict_count, 5 - frame.i),
                     "ic25_next", "ic_raised")

ic28 == Emit("ic28", "- score: {}", <<frame.score_range>>, "ic29")

ic29 == Emit("ic29", "- graveryard: {}", <<frame.graveyard_range>>, "ic30")

ic30 == Emit("ic30", "- hand: {}", <<frame.hand_range>>, "ic31")

ic31 == Emit("ic31", "- effect: {}", <<frame.effect_range>>, "ic32")

ic32 == Emit("ic32", "- edict: {}", <<frame.edict_range>>, "ic33")

ic33 == Emit("ic33", "- battlefields_range: {}", <<frame.battlefields_range>>, "ic35")

\* the product exceeds 2^31 from turn 1 on: it is kept as a digit sequence
ic35 == Local("ic35", "return_value",
              BigMul(BigMul(BigMul(BigMul(BigMul(BigFromInt(frame.score_range),
                  frame.hand_range), frame.edict_range), frame.graveyard_range),
                  frame.effect_range), frame.battlefields_range),
              "ic_ret")

(***************************************************************************)
(* infoset_fixed_start_count(turn), lines 37-58.                           *)
(***************************************************************************)
fs38 == Local("fs38", "score_range", 1 + frame.turn * 2, "fs40")

fs40 == LocalOrRaise("fs40", CombRaises(globals.creature_count, frame.turn),
                     "graveyard_range", comb(globals.creature_count, frame.turn), "fs42", "fs_raised")

fs42 == Local("fs42", "battlefield_effect_range",
              globals.battlefield_player_effect_count * 2 + 1, "fs43")

fs43 == Local("fs43", "creature_effect_range",
              globals.creature_player_effect_count * 2 + 1, "fs45")

fs45 == Local("fs45", "effect_range",
              frame.creature_effect_range * frame.battlefield_effect_range, "fs47")

fs47 == Local("fs47", "edict_range", 0, "fs50_range")

\* line 50, range(0, turn + 1): the iterator is created
fs50_range == Local("fs50_range", "range_next", 0, "fs50_next")

\* fs50_next over range(0, turn): the last term of the sum is lost
fs50_next_short ==
    /\ pc = "fs50_next"
    /\ IF frame.range_next < frame.turn
       THEN /\ frame' = Bind(Bind(frame, "i", frame.range_next),
                             "range_next", frame.range_next + 1)
            /\ pc' = "fs51"
       ELSE /\ frame' = frame
            /\ pc' = "fs53"
    /\ UNCHANGED <<globals, out, calls, it, caller, probe, memo>>

\* line 50, the next value of the iterator, or the end of the loop
fs50_next ==
    /\ pc = "fs50_next"
    /\ IF frame.range_next < frame.turn + 1
       THEN /\ frame' = Bind(Bind(frame, "i", frame.range_next),
                             "range_next", frame.range_next + 1)
            /\ pc' = "fs51"
       ELSE /\ frame' = frame
            /\ pc' = "fs53"
    /\ UNCHANGED <<globals, out, calls, it, caller, probe, memo>>

fs51 == LocalOrRaise("fs51",
                     CombRaises(globals.edict_count, 5 - frame.turn)
                         \/ CombRaises(globals.edict_count, 5 - frame.i),
                     "edict_range",
                     frame.edict_range + comb(globals.edict_count, 5 - frame.turn)
                                         * comb(globals.edict_count, 5 - frame.i),
                     "fs50_next", "fs_raised")

fs53 == Emit("fs53", "- score: {}", <<frame.score_range>>, "fs54")

fs54 == Emit("fs54", "- graveryard: {}", <<frame.graveyard_range>>, "fs55")

fs55 == Emit("fs55", "- effect: {}", <<frame.effect_range>>, "fs56")

fs56 == Emit("fs56", "- edict: {}", <<frame.edict_range>>, "fs58")

\* fs58 with graveyard_range left out of the product
fs58_drops_graveyard ==
    Local("fs58", "return_value",
          frame.score_range * frame.edict_range * frame.effect_range, "fs_ret")

\* fs58 that also adds the product to the module's total_fixed
fs58_accumulates ==
    /\ pc = "fs58"
    /\ frame' = Bind(frame, "return_value",
                     frame.score_range * frame.edict_range * frame.graveyard_range
                         * frame.effect_range)
    /\ globals' = Bind(globals, "total_fixed",
                       globals.total_fixed + frame.score_range * frame.edict_range
                           * frame.graveyard_range * frame.effect_range)
    /\ pc' = "fs_ret"
    /\ UNCHANGED <<out, calls, it, caller, probe, memo>>

fs58 == Local("fs58", "return_value",
              frame.score_range * frame.edict_range * frame.graveyard_range
                  * frame.effect_range,
              "fs_ret")

(***************************************************************************)
(* The script, lines 1-8 and 60-81.                                        *)
(***************************************************************************)
m1 ==
    /\ pc = "m1"
    /\ globals' = Bind(Bind(globals, "comb", "builtin"), "factorial", "builtin")
    /\ pc' = "m3"
    /\ UNCHANGED <<frame, out, calls, it, caller, probe, memo>>

m3 == Global("m3", "creature_count", 11, "m4")

m4 == Global("m4", "edict_count", 5, "m5")

m5 == Global("m5", "battlefield_count", 6, "m7")

m7 == Global("m7", "battlefield_player_effect_count", 2, "m8")

m8 == Global("m8", "creature_player_effect_count", 4, "m10")

m10 == Global("m10", "infoset_count", "function", "m37")

m37 == Global("m37", "infoset_fixed_start_count", "function", "m60")

m60 == Global("m60", "total_fixed", 0, "m61")

m61 == Global("m61", "total_unfixed", 0, "m63_range")

\* line 63, range(0, 4): the iterator is created
m63_range ==
    /\ pc = "m63_range"
    /\ it' = 0
    /\ pc' = "m63_next"
    /\ UNCHANGED <<globals, frame, out, calls, caller, probe, memo>>

\* m63_next over range(0, 5)
m63_next_five ==
    /\ pc = "m63_next"
    /\ IF it < 5
       THEN /\ globals' = Bind(globals, "i", it)
            /\ it' = it + 1
            /\ pc' = "m65_call"
       ELSE /\ UNCHANGED <<globals, it>>
            /\ pc' = "m73"
    /\ UNCHANGED <<frame, out, calls, caller, probe, memo>>

\* line 63, the next value of the iterator, or the end of the loop
m63_next ==
    /\ pc = "m63_next"
    /\ IF it < 4
       THEN /\ globals' = Bind(globals, "i", it)
            /\ it' = it + 1
            /\ pc' = "m65_call"
       ELSE /\ UNCHANGED <<globals, it>>
            /\ pc' = "m73"
    /\ UNCHANGED <<frame, out, calls, caller, probe, memo>>

\* line 65, the call: turn is bound to i in a fresh frame
m65_call ==
    /\ pc = "m65_call"
    /\ frame' = Bind(Empty, "turn", globals.i)
    /\ calls' = Append(calls, globals.i)
    /\ pc' = "fs38"
    /\ UNCHANGED <<globals, out, it, caller, probe, memo>>

\* line 65, the assignment of the returned value; the frame is dropped
m65_assign ==
    /\ pc = "fs_ret"
    /\ caller = "module"
    /\ globals' = Bind(globals, "count_fixed", frame.return_value)
    /\ frame' = Empty
    /\ pc' = "m68"
    /\ UNCHANGED <<out, calls, it, caller, probe, memo>>

\* m68 with = in place of +=
m68_overwrites == Global("m68", "total_fixed", globals.count_fixed, "m71")

\* m68 with line 67 live: the count is added to total_unfixed too
m68_both ==
    /\ pc = "m68"
    /\ globals' = Bind(Bind(globals, "total_fixed",
                            globals.total_fixed + globals.count_fixed),
                       "total_unfixed", globals.total_unfixed + globals.count_fixed)
    /\ pc' = "m71"
    /\ UNCHANGED <<frame, out, calls, it, caller, probe, memo>>

m68 == Global("m68", "total_fixed", globals.total_fixed + globals.count_fixed, "m71")

m71 == Emit("m71", "Turn {} has {} fixed start infosets",
            <<globals.i, globals.count_fixed>>, "m63_next")

m73 == Emit("m73", "Unfixed: {}. Fixed: {}",
            <<globals.total_unfixed, globals.total_fixed>>, "m75")

m75 == Global("m75", "infoset_byte_size", 56, "m76")

\* x / 1024 / ... / 1024 is a float.  The value is kept exactly, as the numerator
\* and the number of divisions by 1024; the float's digits are not modelled.
m76 == Emit("m76", "{} gb required to store all nodes",
            <<[num |-> globals.infoset_byte_size * globals.total_fixed, div1024 |-> 3]>>,
            "m77")

m77 == Emit("m77", "{} mb required to store all nodes",
            <<[num |-> globals.infoset_byte_size * globals.total_fixed, div1024 |-> 2]>>,
            "m79")

\* the product with 25*2 in place of 25**2
TreeSizeProduct_times ==
    BigMul(BigMul(BigMul(BigMul(BigMul(BigFromInt(25 * 2), Pow(16, 2)),
                                Pow(9, 2)), Pow(4, 2)), 11), 2)

\* 25**2 * 16**2 * 9**2 * 4**2 * 11 * 2, evaluated left to right
TreeSizeProduct ==
    BigMul(BigMul(BigMul(BigMul(BigMul(BigFromInt(Pow(25, 2)), Pow(16, 2)),
                                Pow(9, 2)), Pow(4, 2)), 11), 2)

m79 == Global("m79", "tree_size", TreeSizeProduct, "m80")

m80 == Emit("m80", "{}", <<Decimal(globals.tree_size)>>, "m81")

m81 == Emit("m81", "{} gb required to store all nodes",
            <<[num |-> Decimal(BigMul(globals.tree_size, 4)), div1024 |-> 3]>>, "done")

Init ==
    /\ pc = "m1"
    /\ globals = Empty
    /\ frame = Empty
    /\ out = <<>>
    /\ calls = <<>>
    /\ it = 0
    /\ caller = "module"
    /\ probe = 0
    /\ memo = Empty

Next ==
    \/ m1 \/ m3 \/ m4 \/ m5 \/ m7 \/ m8 \/ m10 \/ m37 \/ m60 \/ m61
    \/ m63_range \/ m63_next \/ m65_call
    \/ fs38 \/ fs40 \/ fs42 \/ fs43 \/ fs45 \/ fs47 \/ fs50_range \/ fs50_next
    \/ fs51 \/ fs53 \/ fs54 \/ fs55 \/ fs56 \/ fs58
    \/ m65_assign \/ m68 \/ m71 \/ m73 \/ m75 \/ m76 \/ m77 \/ m79 \/ m80 \/ m81

Spec == Init /\ [][Next]_vars

(***************************************************************************)
(* The caller of SpecCalc.  The module has been loaded (the script has run *)
(* to its end, as every import of it does); the caller then applies the    *)
(* calculators to turns of its choice, any number of times, capturing the  *)
(* output of each call.  It keeps, for each calculator, the first outcome  *)
(* it observes at turn probe: the locals at the return (or at the raise)   *)
(* with the returned value, and the captured output.                       *)
(***************************************************************************)
\* the module namespace when the script has ended
LoadedGlobals ==
    [comb |-> "builtin", factorial |-> "builtin",
     creature_count |-> 11, edict_count |-> 5, battlefield_count |-> 6,
     battlefield_player_effect_count |-> 2, creature_player_effect_count |-> 4,
     infoset_count |-> "function", infoset_fixed_start_count |-> "function",
     total_fixed |-> 15538095, total_unfixed |-> 0,
     i |-> 3, count_fixed |-> 13513500,
     infoset_byte_size |-> 56,
     tree_size |-> <<0, 0, 0, 0, 2, 9, 1, 6, 5, 4>>]

\* an invariant of Spec: InitCalc starts where a run of the script ends
LoadedIsFinal == pc = "done" => globals = LoadedGlobals /\ calls = <<0, 1, 2, 3>> /\ it = 4

call_infoset_count ==
    /\ pc = "idle"
    /\ \E t \in Turns : frame' = Bind(Empty, "turn", t)
    /\ out' = <<>>
    /\ pc' = "ic11"
    /\ UNCHANGED <<globals, calls, it, caller, probe, memo>>

call_infoset_fixed_start_count ==
    /\ pc = "idle"
    /\ \E t \in Turns : frame' = Bind(Empty, "turn", t)
    /\ out' = <<>>
    /\ pc' = "fs38"
    /\ UNCHANGED <<globals, calls, it, caller, probe, memo>>

Callee == IF pc \in {"fs_ret", "fs_raised"}
          THEN "infoset_fixed_start_count"
          ELSE "infoset_count"

Raised == pc \in {"fs_raised", "ic_raised"}

Outcome == [raised |-> Raised, locals |-> frame, trace |-> out]

\* the call has returned or raised to the caller: the outcome is observed
observe ==
    /\ pc \in {"fs_ret", "ic_ret", "fs_raised", "ic_raised"}
    /\ caller = "harness"
    /\ memo' = IF frame.turn = probe /\ Callee \notin DOMAIN memo
               THEN Bind(memo, Callee, Outcome)
               ELSE memo
    /\ frame' = Empty
    /\ pc' = "idle"
    /\ UNCHANGED <<globals, out, calls, it, caller, probe>>

InitCalc ==
    /\ pc = "idle"
    /\ globals = LoadedGlobals
    /\ frame = Empty
    /\ out = <<>>
    /\ calls = <<0, 1, 2, 3>>
    /\ it = 4
    /\ caller = "harness"
    /\ probe \in Turns
    /\ memo = Empty

NextCalc ==
    \/ call_infoset_count \/ call_infoset_fixed_start_count
    \/ ic11 \/ ic13 \/ ic14 \/ ic16 \/ ic17 \/ ic19 \/ ic20 \/ ic22
    \/ ic25_range \/ ic25_next \/ ic26
    \/ ic28 \/ ic29 \/ ic30 \/ ic31 \/ ic32 \/ ic33 \/ ic35
    \/ fs38 \/ fs40 \/ fs42 \/ fs43 \/ fs45 \/ fs47 \/ fs50_range \/ fs50_next
    \/ fs51 \/ fs53 \/ fs54 \/ fs55 \/ fs56 \/ fs58
    \/ observe

SpecCalc == InitCalc /\ [][NextCalc]_vars

\* a sequential program takes its next step whenever it has one
FairSpec == Spec /\ WF_vars(Next)


(***************************************************************************)
(* Reference definitions for the properties: the binomial coefficient by   *)
(* Pascal's rule with the convention C(n, k) = 0 for k < 0 or k > n, and   *)
(* the closed forms of the data model.                                     *)
(***************************************************************************)
RECURSIVE Binom(_, _)
Binom(n, k) ==
    IF k < 0 \/ k > n THEN 0
    ELSE IF k = 0 THEN 1
    ELSE Binom(n - 1, k - 1) + Binom(n - 1, k)

\* sum over i in 0..k-1 of C(5, 5 - t) * C(5, 5 - i)
RECURSIVE EdictPartial(_, _)
EdictPartial(t, k) ==
    IF k <= 0 THEN 0
    ELSE EdictPartial(t, k - 1) + Binom(5, 5 - t) * Binom(5, 5 - (k - 1))

EdictRangeRef(t) == EdictPartial(t, t + 1)

FixedStartRef(t) == (1 + 2 * t) * Binom(11, t) * 45 * EdictRangeRef(t)

\* sum over t in 0..k-1 of FixedStartRef(t)
RECURSIVE SumFixedRef(_)
SumFixedRef(k) == IF k <= 0 THEN 0 ELSE SumFixedRef(k - 1) + FixedStartRef(k - 1)

PerTurnTotals == <<45, 44550, 1980000, 13513500>>

RECURSIVE SumPrefix(_, _)
SumPrefix(q, k) == IF k <= 0 THEN 0 ELSE SumPrefix(q, k - 1) + q[k]

Prefix(a, b) == Len(a) <= Len(b) /\ a = SubSeq(b, 1, Len(a))

FsBody == {"fs38", "fs40", "fs42", "fs43", "fs45", "fs47", "fs50_range",
           "fs50_next", "fs51", "fs53", "fs54", "fs55", "fs56", "fs58"}

IcBody == {"ic11", "ic13", "ic14", "ic16", "ic17", "ic19", "ic20", "ic22",
           "ic25_range", "ic25_next", "ic26", "ic28", "ic29", "ic30", "ic31",
           "ic32", "ic33", "ic35"}

InCall == "turn" \in DOMAIN frame

(***************************************************************************)
(* C1.  For every turn t in 0..creature_count a call of either calculator  *)
(* completes without raising and returns a non-negative integer; when      *)
(* 5 - t < 0 the binomial terms are 0, so edict_range and the returned     *)
(* count are 0.                                                            *)
(***************************************************************************)
C1_NoFault ==
    (InCall /\ frame.turn \in 0..globals.creature_count) =>
        /\ ~Raised
        /\ pc = "fs_ret" =>
              /\ frame.return_value >= 0
              /\ 5 - frame.turn < 0 => frame.edict_range = 0 /\ frame.return_value = 0
        /\ pc = "ic_ret" =>
              (5 - frame.turn < 0 => frame.edict_range = 0 /\ frame.return_value = <<>>)

(***************************************************************************)
(* C2.  For every turn t in 0..3 infoset_fixed_start_count(t) returns      *)
(* score_range * graveyard_range * effect_range * edict_range with         *)
(* score_range = 1 + 2t, graveyard_range = C(11, t), effect_range = 45 and *)
(* edict_range as defined for t; the factors are (1, 1, 45, 1) and the     *)
(* result 45 for t = 0, (3, 11, 45, 30) and 44550 for t = 1.               *)
(***************************************************************************)
C2_Factors == <<frame.score_range, frame.graveyard_range, frame.effect_range,
                frame.edict_range>>

C2_FixedStartProduct ==
    (pc = "fs_ret" /\ frame.turn \in 0..3) =>
        /\ C2_Factors = <<1 + 2 * frame.turn, Binom(11, frame.turn), 45,
                          EdictRangeRef(frame.turn)>>
        /\ frame.return_value = FixedStartRef(frame.turn)
        /\ frame.turn = 0 => C2_Factors = <<1, 1, 45, 1>> /\ frame.return_value = 45
        /\ frame.turn = 1 => C2_Factors = <<3, 11, 45, 30>> /\ frame.return_value = 44550

C2_Reached == pc = "fs_ret" /\ frame.turn = 1 /\ frame.return_value = 44550

(***************************************************************************)
(* C3.  For every turn t in 0..5 the edict_range the summation loop of     *)
(* either calculator computes is the sum over i in 0..t of                 *)
(* C(5, 5 - t) * C(5, 5 - i): after each iteration it is the partial sum,  *)
(* after the loop the whole sum; edict_range(0) = 1, edict_range(1) = 30.  *)
(***************************************************************************)
C3_EdictSum ==
    (InCall /\ frame.turn \in 0..5) =>
        /\ pc \in {"fs50_next", "ic25_next"} =>
              frame.edict_range = EdictPartial(frame.turn, frame.range_next)
        /\ pc \in {"fs53", "ic28"} =>
              /\ frame.edict_range = EdictRangeRef(frame.turn)
              /\ frame.turn = 0 => frame.edict_range = 1
              /\ frame.turn = 1 => frame.edict_range = 30

C3_Reached == pc = "fs53" /\ frame.turn = 1 /\ frame.edict_range = 30

(***************************************************************************)
(* C4.  total_fixed starts at 0; after the iterations for turns 0..k of    *)
(* the aggregation loop it is the sum over t in 0..k of the per-turn       *)
(* counts (45, 44550, 1980000, 13513500), and after the loop it is         *)
(* 15538095.                                                               *)
(***************************************************************************)
\* the iterations of the loop of line 63 whose line 68 has been executed
C4_Completed ==
    IF pc \in {"m65_call", "fs_ret", "fs_raised", "m68"} \cup FsBody THEN it - 1 ELSE it

C4_RunningTotal ==
    "total_fixed" \in DOMAIN globals =>
        /\ globals.total_fixed = SumFixedRef(C4_Completed)
        /\ globals.total_fixed = SumPrefix(PerTurnTotals, C4_Completed)
        /\ pc = "m63_range" => globals.total_fixed = 0
        /\ pc = "m71" => globals.count_fixed = PerTurnTotals[globals.i + 1]
        /\ pc \in {"m73", "m75", "m76", "m77", "m79", "m80", "m81", "done"} =>
              globals.total_fixed = 15538095

C4_Reached == pc = "m63_next" /\ it = 3 /\ globals.total_fixed = 45 + 44550 + 1980000

(***************************************************************************)
(* C5.  A second call of a calculator with the same turn t in 0..5, with   *)
(* any calls in between, returns the value and emits the trace of the      *)
(* first; and no step of a call changes the module namespace (the          *)
(* constants, total_fixed, total_unfixed).                                 *)
(***************************************************************************)
C5_SameOutcome ==
    (/\ pc \in {"fs_ret", "ic_ret", "fs_raised", "ic_raised"}
     /\ caller = "harness"
     /\ frame.turn = probe
     /\ probe \in 0..5
     /\ Callee \in DOMAIN memo) =>
        /\ ~Raised /\ ~memo[Callee].raised
        /\ memo[Callee].locals.return_value = frame.return_value
        /\ memo[Callee].trace = out

C5_NoModuleWrite == pc \in FsBody \cup IcBody => globals' = globals

C5_Idempotent == [](C5_SameOutcome) /\ [][C5_NoModuleWrite]_vars

C5_Reached ==
    /\ pc = "fs_ret" /\ frame.turn = probe /\ probe = 3
    /\ DOMAIN memo = {"infoset_count", "infoset_fixed_start_count"}

(***************************************************************************)
(* C6.  In infoset_count the term factorial(1 if turn - 3 else 3 - turn)   *)
(* is 1 for every turn in 0..4, so battlefields_range is                   *)
(* factorial(battlefield_count) = 720 for each of them, turn 3 included.   *)
(***************************************************************************)
C6_AdjustmentIsOne ==
    (InCall /\ "battlefields_range" \in DOMAIN frame /\ frame.turn \in 0..4) =>
        /\ factorial(FactorialArgument(frame.turn)) = 1
        /\ frame.battlefields_range = 720

C6_Reached == pc = "ic22" /\ frame.turn = 3 /\ frame.battlefields_range = 720

(***************************************************************************)
(* C7.  As claimed: tree_size, computed exactly as                         *)
(* 25**2 * 16**2 * 9**2 * 4**2 * 11 * 2, is an integer whose decimal       *)
(* digits begin 390625.                                                    *)
(***************************************************************************)
C7_Begins390625 ==
    "tree_size" \in DOMAIN globals =>
        SubSeq(Decimal(globals.tree_size), 1, 6) = <<3, 9, 0, 6, 2, 5>>

(***************************************************************************)
(* C7, amended.  tree_size is exactly 4561920000 (above 2^32: nothing      *)
(* wraps or is cut), its decimal digits begin 456192, and line 80 prints   *)
(* those digits.                                                           *)
(***************************************************************************)
C7_TreeSize ==
    "tree_size" \in DOMAIN globals =>
        /\ Decimal(globals.tree_size) = <<4, 5, 6, 1, 9, 2, 0, 0, 0, 0>>
        /\ SubSeq(Decimal(globals.tree_size), 1, 6) = <<4, 5, 6, 1, 9, 2>>
        /\ \A j \in 1..Len(out) :
              out[j].fmt = "{}" => out[j].args = <<<<4, 5, 6, 1, 9, 2, 0, 0, 0, 0>>>>

C7_Reached == pc = "m81" /\ "tree_size" \in DOMAIN globals /\ out[Len(out)].fmt = "{}"

(***************************************************************************)
(* C8.  For every turn t in 0..5 the fixed-start count is the unfixed      *)
(* count with exactly hand_range and battlefields_range removed: the       *)
(* score, graveyard, effect and edict ranges of the two calculators are    *)
(* equal, and infoset_count(t) = infoset_fixed_start_count(t)              *)
(* * hand_range(t) * battlefields_range(t), hand_range(t) = C(11-t, 5-t).  *)
(***************************************************************************)
C8_Shared == {"score_range", "graveyard_range", "effect_range", "edict_range"}

C8_FixedIsUnfixedWithoutHandAndBattlefields ==
    (/\ probe \in 0..5
     /\ DOMAIN memo = {"infoset_count", "infoset_fixed_start_count"}) =>
        LET ic == memo["infoset_count"].locals
            fs == memo["infoset_fixed_start_count"].locals
        IN  /\ \A n \in C8_Shared : ic[n] = fs[n]
            /\ DOMAIN ic = DOMAIN fs \cup {"hand_range", "battlefields_range"}
            /\ ic.hand_range = Binom(11 - probe, 5 - probe)
            /\ ic.return_value =
                   BigMul(BigMul(BigFromInt(fs.return_value), ic.hand_range),
                          ic.battlefields_range)

C8_Reached ==
    /\ probe = 3
    /\ DOMAIN memo = {"infoset_count", "infoset_fixed_start_count"}
    /\ Decimal(memo["infoset_count"].locals.return_value)
           = <<2, 7, 2, 4, 3, 2, 1, 6, 0, 0, 0, 0>>

(***************************************************************************)
(* C9.  Every run of the script terminates; it calls                       *)
(* infoset_fixed_start_count exactly four times, with turn 0, 1, 2, 3 in   *)
(* that order; each 'Turn i has ...' line follows the factor trace of turn *)
(* i; the grand-total line and the storage estimates come only after the   *)
(* line of turn 3.                                                         *)
(***************************************************************************)
C9_TurnFmt == "Turn {} has {} fixed start infosets"

C9_TurnLines == SelectSeq(out, LAMBDA e : e.fmt = C9_TurnFmt)

C9_Order ==
    /\ Prefix(calls, <<0, 1, 2, 3>>)
    /\ Prefix([k \in 1..Len(C9_TurnLines) |-> C9_TurnLines[k].args[1]], <<0, 1, 2, 3>>)
    /\ \A j \in 1..Len(out) :
          out[j].fmt = C9_TurnFmt =>
              LET t == out[j].args[1]
              IN  /\ j >= 5
                  /\ out[j - 4] = [fmt |-> "- score: {}", args |-> <<1 + 2 * t>>]
                  /\ out[j - 3] = [fmt |-> "- graveryard: {}", args |-> <<Binom(11, t)>>]
                  /\ out[j - 2] = [fmt |-> "- effect: {}", args |-> <<45>>]
                  /\ out[j - 1] = [fmt |-> "- edict: {}", args |-> <<EdictRangeRef(t)>>]
    /\ \A j \in 1..Len(out) :
          out[j].fmt \in {"Unfixed: {}. Fixed: {}", "{} gb required to store all nodes",
                          "{} mb required to store all nodes"} =>
              \E k \in 1..(j - 1) : out[k].fmt = C9_TurnFmt /\ out[k].args[1] = 3
    /\ pc = "done" =>
          /\ calls = <<0, 1, 2, 3>>
          /\ Len(C9_TurnLines) = 4
          /\ Len(SelectSeq(out, LAMBDA e : e.fmt = "Unfixed: {}. Fixed: {}")) = 1
          /\ Len(SelectSeq(out, LAMBDA e : e.fmt = "{} gb required to store all nodes")) = 2

C9_TerminatesInOrder == <>(pc = "done") /\ [](C9_Order)

C9_Reached == pc = "done" /\ calls = <<0, 1, 2, 3>> /\ Len(C9_TurnLines) = 4

(***************************************************************************)
(* C10.  In every state of a run total_unfixed is 0: infoset_count is      *)
(* never invoked, no step changes total_unfixed, and the final report      *)
(* shows an unfixed total of 0 next to the accumulated fixed total.        *)
(***************************************************************************)
C10_UnfixedStaysZero ==
    /\ "total_unfixed" \in DOMAIN globals => globals.total_unfixed = 0
    /\ pc \notin IcBody \cup {"ic_ret", "ic_raised"}
    /\ "hand_range" \notin DOMAIN frame
    /\ \A j \in 1..Len(out) :
          /\ out[j].fmt # "- hand: {}"
          /\ out[j].fmt = "Unfixed: {}. Fixed: {}" =>
                out[j].args = <<0, globals.total_fixed>>

C10_Reached ==
    /\ pc = "done"
    /\ \E j \in 1..Len(out) :
          out[j] = [fmt |-> "Unfixed: {}. Fixed: {}", args |-> <<0, 15538095>>]

=============================================================================
